---- MODULE Spec2Model ----
(***************************************************************************)
(* A model of post_from_excel.py: the incremental posting driver (main),   *)
(* its cursor store (load_state / save_state), the column resolver         *)
(* (find_review_column) and the post formatter (format_post).              *)
(*                                                                         *)
(* Text is modelled as a sequence of one-character strings.  The two       *)
(* non-ASCII characters the script writes, the em-dash and the bullet, are *)
(* the one-element tokens "EMDASH" and "BULLET".                           *)
(***************************************************************************)
EXTENDS Integers, Sequences, FiniteSets, TLC

(* ------------------------------ bounds -------------------------------- *)

\* most rows the sheet ever holds
MaxRows == 2
\* most crashes and publish/login failures injected over a behaviour
MaxFaults == 1
\* most runs started with RESET_STATE or FORCE_POST_FIRST_N set
MaxOverrides == 1
\* largest FORCE_POST_FIRST_N tried
MaxForce == 2
\* most columns of a sheet with headers other than the default ones
MaxCols == 2
\* how far below and above the cut of format_post the message lengths tried go
MaxTail == 16

(* ------------------------------- text --------------------------------- *)

Range(s) == {s[i] : i \in DOMAIN s}

Min(a, b) == IF a <= b THEN a ELSE b

IsSpace(c) == c \in {" ", "\n", "\t"}

RECURSIVE LStrip(_)
LStrip(s) ==
    IF s = <<>> THEN s
    ELSE IF IsSpace(Head(s)) THEN LStrip(Tail(s)) ELSE s

RECURSIVE RStrip(_)
RStrip(s) ==
    IF s = <<>> THEN s
    ELSE IF IsSpace(s[Len(s)]) THEN RStrip(SubSeq(s, 1, Len(s) - 1)) ELSE s

\* str.strip()
strip(s) == RStrip(LStrip(s))

\* s[:n]
Prefix(s, n) == SubSeq(s, 1, Min(n, Len(s)))

UpperAlphabet ==
    <<"A","B","C","D","E","F","G","H","I","J","K","L","M",
      "N","O","P","Q","R","S","T","U","V","W","X","Y","Z">>

LowerAlphabet ==
    <<"a","b","c","d","e","f","g","h","i","j","k","l","m",
      "n","o","p","q","r","s","t","u","v","w","x","y","z">>

\* str.lower() on one character
LowerChar(c) ==
    IF c \in Range(UpperAlphabet)
    THEN LowerAlphabet[CHOOSE i \in DOMAIN UpperAlphabet : UpperAlphabet[i] = c]
    ELSE c

lower(s) == [i \in DOMAIN s |-> LowerChar(s[i])]

\* re.sub(r"\s+", " ", s): every run of whitespace becomes one space
RECURSIVE CollapseSpace(_)
CollapseSpace(s) ==
    IF s = <<>> THEN s
    ELSE IF IsSpace(Head(s))
         THEN <<" ">> \o CollapseSpace(LStrip(s))
         ELSE <<Head(s)>> \o CollapseSpace(Tail(s))

_norm(s) == CollapseSpace(lower(strip(s)))

(* --------------------------- configuration ---------------------------- *)

TIMESTAMP_COL == <<"T","i","m","e","s","t","a","m","p">>
NAME_COL      == <<"N","a","m","e">>
MESSAGE_COL   == <<"M","e","s","s","a","g","e">>

Anonymous == <<"A","n","o","n","y","m","o","u","s">>

\* the cut of format_post
MaxPostLen == 290

(* ------------------------- column resolver ---------------------------- *)

Digits == {"0","1","2","3","4","5","6","7","8","9"}

\* \w of the regular expressions
IsWordChar(c) == c \in Range(LowerAlphabet) \cup Range(UpperAlphabet) \cup Digits \cup {"_"}

WordAt(s, p) == p \in DOMAIN s /\ IsWordChar(s[p])

\* \b just before position p (1 .. Len(s)+1)
Boundary(s, p) == WordAt(s, p - 1) # WordAt(s, p)

\* the literal w, with \b on both sides, at position p of s
OccursAt(s, w, p) ==
    /\ p >= 1
    /\ p + Len(w) - 1 <= Len(s)
    /\ SubSeq(s, p, p + Len(w) - 1) = w
    /\ Boundary(s, p)
    /\ Boundary(s, p + Len(w))

W_ethos    == <<"e","t","h","o","s">>
W_did      == <<"d","i","d">>
W_does     == <<"d","o","e","s">>
W_well     == <<"w","e","l","l">>
W_what     == <<"w","h","a","t">>
W_feedback == <<"f","e","e","d","b","a","c","k">>
W_what_went_well ==
    <<"w","h","a","t"," ","w","e","n","t"," ","w","e","l","l">>

\* each needle: \b-delimited alternatives joined by .*
needles ==
    << << {W_ethos}, {W_did, W_does}, {W_well} >>,
       << {W_what}, {W_ethos}, {W_well} >>,
       << {W_what_went_well}, {W_ethos} >>,
       << {W_feedback}, {W_ethos}, {W_well} >> >>

\* the part of needle p from its k-th alternative on is found in s at or after from
RECURSIVE MatchFrom(_, _, _, _)
MatchFrom(s, p, k, from) ==
    \E at \in from .. Len(s) : \E w \in p[k] :
        /\ OccursAt(s, w, at)
        /\ (k = Len(p) \/ MatchFrom(s, p, k + 1, at + Len(w)))

\* re.search(p, s)
re_search(p, s) == MatchFrom(s, p, 1, 1)

RECURSIVE SumLen(_, _, _)
SumLen(rows, c, i) ==
    IF i > Len(rows) THEN 0 ELSE Len(rows[i][c]) + SumLen(rows, c, i + 1)

\* series.astype(str).str.len().mean(), times the row count (the same for every column)
avg_len(df, c) == SumLen(df.rows, c, 1)

\* find_review_column, trying the needles before the override
find_review_column_needles_first(df) ==
    LET cols == df.columns
        hits == {i \in DOMAIN cols :
                    \E n \in DOMAIN needles : re_search(needles[n], _norm(cols[i]))}
        best == {i \in DOMAIN cols :
                    \A j \in DOMAIN cols : avg_len(df, cols[j]) <= avg_len(df, cols[i])}
    IN  IF hits # {} THEN cols[CHOOSE i \in hits : \A j \in hits : i <= j]
        ELSE IF MESSAGE_COL \in Range(cols) THEN MESSAGE_COL
        ELSE cols[CHOOSE i \in best : \A j \in best : i <= j]

\* find_review_column, with the last of the longest columns winning a tie
find_review_column_last_tie(df) ==
    LET cols == df.columns
        hits == {i \in DOMAIN cols :
                    \E n \in DOMAIN needles : re_search(needles[n], _norm(cols[i]))}
        best == {i \in DOMAIN cols :
                    \A j \in DOMAIN cols : avg_len(df, cols[j]) <= avg_len(df, cols[i])}
    IN  IF MESSAGE_COL \in Range(cols) THEN MESSAGE_COL
        ELSE IF hits # {} THEN cols[CHOOSE i \in hits : \A j \in hits : i <= j]
        ELSE cols[CHOOSE i \in best : \A j \in best : j <= i]

find_review_column(df) ==
    LET cols == df.columns
        hits == {i \in DOMAIN cols :
                    \E n \in DOMAIN needles : re_search(needles[n], _norm(cols[i]))}
        best == {i \in DOMAIN cols :
                    \A j \in DOMAIN cols : avg_len(df, cols[j]) <= avg_len(df, cols[i])}
    IN  IF MESSAGE_COL \in Range(cols) THEN MESSAGE_COL
        ELSE IF hits # {} THEN cols[CHOOSE i \in hits : \A j \in hits : i <= j]
        ELSE cols[CHOOSE i \in best : \A j \in best : i <= j]

(* --------------------------- post formatter --------------------------- *)

\* row.get(c, default)
Get(row, c, default) == IF c \in DOMAIN row THEN row[c] ELSE default

\* format_post, cutting the message alone and not the composed text
format_post_cuts_message(row, review_col) ==
    LET review == strip(Get(row, review_col, <<>>))
        n0     == strip(Get(row, NAME_COL, Anonymous))
        name   == IF n0 = <<>> THEN Anonymous ELSE n0
        ts     == strip(Get(row, TIMESTAMP_COL, <<>>))
        cut    == Prefix(review, MaxPostLen)
        base1  == IF name # <<>> THEN cut \o <<"\n", "EMDASH", " ">> \o name ELSE cut
        base2  == IF ts # <<>> THEN base1 \o <<" ", "BULLET", " ">> \o ts ELSE base1
    IN  IF review = <<>> THEN <<>> ELSE base2

format_post(row, review_col) ==
    LET review == strip(Get(row, review_col, <<>>))
        n0     == strip(Get(row, NAME_COL, Anonymous))
        name   == IF n0 = <<>> THEN Anonymous ELSE n0
        ts     == strip(Get(row, TIMESTAMP_COL, <<>>))
        base1  == IF name # <<>> THEN review \o <<"\n", "EMDASH", " ">> \o name ELSE review
        base2  == IF ts # <<>> THEN base1 \o <<" ", "BULLET", " ">> \o ts ELSE base1
    IN  IF review = <<>> THEN <<>> ELSE Prefix(base2, MaxPostLen)

(* ------------------------------ the sheet ----------------------------- *)

Columns == <<TIMESTAMP_COL, NAME_COL, MESSAGE_COL>>

T_2024  == <<"2","0","2","4">>
N_Alex  == <<"A","l","e","x">>
M_Great == <<"G","r","e","a","t"," ","j","o","b">>

MkRow(ts, name, msg) ==
    (TIMESTAMP_COL :> ts) @@ (NAME_COL :> name) @@ (MESSAGE_COL :> msg)

\* the rows a sheet is filled from: a row with a message, and a row whose
\* message is only whitespace
RowPool ==
    { MkRow(T_2024, N_Alex, M_Great),
      MkRow(T_2024, N_Alex, <<" ", " ">>) }

\* last_row.json: missing, not parseable, or {"last_index": n}
Absent  == [kind |-> "absent", last_index |-> -1]
Corrupt == [kind |-> "corrupt", last_index |-> -1]
Json(n) == [kind |-> "json", last_index |-> n]

\* the last_index a run without reset would load from the file
Cursor(f) == IF f.kind = "json" THEN f.last_index ELSE -1

(* ------------------------------- state -------------------------------- *)

VARIABLES
    df,                  \* the sheet: [columns, rows], cells already fillna("")
    file,                \* last_row.json: Absent, Corrupt or Json(last_index)
    pc,                  \* where the process is; "idle" when none runs
    RESET_STATE,         \* configuration of the running (or last) process
    FORCE_POST_FIRST_N,
    state,               \* state["last_index"] in memory
    rows,                \* df.to_dict("records")
    review_col,
    start,
    end,
    idx,
    text,
    posted,
    \* history, read by the properties only
    published,           \* row position -> number of send_post calls that returned
    calls,               \* row position -> number of send_post calls made
    visited,             \* the row positions the loop body was entered with, this run
    runCalls,            \* send_post calls made by this run
    slept,               \* time.sleep calls made by this run
    fileAtStart,         \* file when this run started
    fileAtRow,           \* file when the loop last stood between two rows
    outcome,             \* how this run ended, "running" while it runs
    failed,              \* the row send_post raised for in this run, -1 if none
    unsaved,             \* the row whose send_post had returned and whose
                         \* save_state had not when this run was killed, -1 if none
    prev,                \* of the run before: how it ended, whether it ran with
                         \* no override, the row send_post raised for, the
                         \* row it was killed with unsaved
    added,               \* a row was added since the last run ended
    faults,              \* crashes and failures injected so far
    overrides,           \* runs started with an override so far
    crashes,             \* the kinds of place the process was killed at so far
    skipped              \* the row positions the loop took the skip branch for

config == <<RESET_STATE, FORCE_POST_FIRST_N, posted>>
locals == <<state, rows, review_col, start, end, idx, text>>
hist == <<published, calls, visited, runCalls, slept, fileAtStart, fileAtRow, failed,
          unsaved, prev, faults, overrides, crashes, skipped>>
vars == <<df, file, pc, config, locals, hist, outcome, added>>

RowIdx == 0 .. MaxRows - 1

\* before the first run: no cursor file, no process
Fresh ==
    /\ file = Absent
    /\ pc = "idle"
    /\ RESET_STATE = FALSE
    /\ FORCE_POST_FIRST_N = 0
    /\ state = -1
    /\ rows = <<>>
    /\ review_col = <<>>
    /\ start = 0
    /\ end = 0
    /\ idx = 0
    /\ text = <<>>
    /\ posted = 0
    /\ published = [i \in RowIdx |-> 0]
    /\ calls = [i \in RowIdx |-> 0]
    /\ visited = <<>>
    /\ runCalls = 0
    /\ slept = 0
    /\ fileAtStart = Absent
    /\ fileAtRow = Absent
    /\ outcome = "none"
    /\ failed = -1
    /\ unsaved = -1
    /\ prev = [ended |-> "never", plain |-> TRUE, failed |-> -1, unsaved |-> -1]
    /\ added = FALSE
    /\ faults = 0
    /\ overrides = 0
    /\ crashes = {}
    /\ skipped = {}

\* the sheet starts with the default headers and no rows
Init ==
    /\ df = [columns |-> Columns, rows |-> <<>>]
    /\ Fresh

\* what a later run can tell of an earlier one: it returned, or it did not
Ended(how) ==
    IF how = "none" THEN "never"
    ELSE IF how \in {"done", "nonew", "nodata"} THEN "returned"
    ELSE "aborted"

\* the process ends: by return, by an uncaught exception, or killed
\* (the local variables of main are gone with it)
Finish(how) ==
    /\ pc' = "idle"
    /\ outcome' = how
    /\ added' = FALSE
    /\ state' = -1
    /\ rows' = <<>>
    /\ review_col' = <<>>
    /\ start' = 0
    /\ end' = 0
    /\ idx' = 0
    /\ text' = <<>>

Going(to) ==
    /\ pc' = to
    /\ UNCHANGED <<outcome, added>>

(* ---------------------------- environment ----------------------------- *)

\* somebody appends a row to the sheet while no process runs
AddRow ==
    /\ pc = "idle"
    /\ Len(df.rows) < MaxRows
    /\ \E r \in RowPool : df' = [df EXCEPT !.rows = Append(@, r)]
    /\ added' = TRUE
    /\ UNCHANGED <<file, pc, config, locals, hist, outcome>>

\* the process is started, with its configuration read from the environment
StartRun ==
    /\ pc = "idle"
    /\ \E r \in BOOLEAN, f \in 0 .. MaxForce :
        /\ (r \/ f > 0) => overrides < MaxOverrides
        /\ RESET_STATE' = r
        /\ FORCE_POST_FIRST_N' = f
        /\ overrides' = IF r \/ f > 0 THEN overrides + 1 ELSE overrides
    /\ pc' = "load"
    /\ outcome' = "running"
    /\ prev' = [ended |-> Ended(outcome),
                plain |-> ~RESET_STATE /\ FORCE_POST_FIRST_N = 0,
                failed |-> failed,
                unsaved |-> unsaved]
    /\ failed' = -1
    /\ unsaved' = -1
    /\ visited' = <<>>
    /\ runCalls' = 0
    /\ slept' = 0
    /\ posted' = 0
    /\ fileAtStart' = file
    /\ fileAtRow' = file
    /\ UNCHANGED <<df, file, locals, published, calls, faults, crashes, skipped, added>>

\* the places of a loop body
MidRow == {"send", "sleep", "save", "dump"}

\* where a crash falls: inside a loop body, between two loop bodies (before
\* the first and after the last included), or before the loop
Place(at) ==
    IF at \in MidRow THEN "row" ELSE IF at = "loop" THEN "between" ELSE "setup"

\* the process is killed, at any point
Crash ==
    /\ pc # "idle"
    /\ faults < MaxFaults
    /\ faults' = faults + 1
    /\ crashes' = crashes \cup {Place(pc)}
    /\ unsaved' = IF pc \in {"sleep", "save", "dump"} /\ strip(text) # <<>>
                  THEN idx ELSE -1
    /\ Finish("crash")
    /\ UNCHANGED <<df, file, config, published, calls, visited, runCalls, slept,
                   fileAtStart, fileAtRow, failed, prev, overrides, skipped>>

(* ---------------------------- cursor store ---------------------------- *)

\* load_state, with the reset branch returning what the file held
load_state_keeps ==
    /\ pc = "load"
    /\ \/ /\ RESET_STATE
          /\ state' = Cursor(file)
          /\ \E removed \in BOOLEAN :
                file' = IF file # Absent /\ removed THEN Absent ELSE file
          /\ Going("fetch")
          /\ UNCHANGED <<rows, review_col, start, end, idx, text>>
       \/ /\ ~RESET_STATE
          /\ file # Corrupt
          /\ state' = Cursor(file)
          /\ Going("fetch")
          /\ UNCHANGED <<file, rows, review_col, start, end, idx, text>>
       \/ /\ ~RESET_STATE
          /\ file = Corrupt
          /\ Finish("loaderr")
          /\ UNCHANGED file
    /\ UNCHANGED <<df, config, hist>>

\* load_state, taking a file that does not parse for no file
load_state_forgives ==
    /\ pc = "load"
    /\ \/ /\ RESET_STATE
          /\ \E removed \in BOOLEAN :
                file' = IF file # Absent /\ removed THEN Absent ELSE file
          /\ state' = -1
       \/ /\ ~RESET_STATE
          /\ state' = Cursor(file)
          /\ UNCHANGED file
    /\ Going("fetch")
    /\ UNCHANGED <<df, config, rows, review_col, start, end, idx, text, hist>>

\* load_state; os.remove may raise, which is only logged
load_state ==
    /\ pc = "load"
    /\ \/ /\ RESET_STATE
          /\ \E removed \in BOOLEAN :
                file' = IF file # Absent /\ removed THEN Absent ELSE file
          /\ state' = -1
          /\ Going("fetch")
          /\ UNCHANGED <<rows, review_col, start, end, idx, text>>
       \/ /\ ~RESET_STATE
          /\ file.kind = "json"
          /\ state' = file.last_index
          /\ Going("fetch")
          /\ UNCHANGED <<file, rows, review_col, start, end, idx, text>>
       \/ /\ ~RESET_STATE
          /\ file = Corrupt
          /\ Finish("loaderr")
          /\ UNCHANGED file
       \/ /\ ~RESET_STATE
          /\ file = Absent
          /\ state' = -1
          /\ Going("fetch")
          /\ UNCHANGED <<file, rows, review_col, start, end, idx, text>>
    /\ UNCHANGED <<df, config, hist>>

\* save_open, without the assignment of line 142
save_open_stale ==
    /\ pc = "save"
    /\ file' = Corrupt
    /\ Going("dump")
    /\ UNCHANGED <<df, config, locals, hist>>

\* save_open, recording the position after the one just handled
save_open_next ==
    /\ pc = "save"
    /\ state' = idx + 1
    /\ file' = Corrupt
    /\ Going("dump")
    /\ UNCHANGED <<df, config, rows, review_col, start, end, idx, text, hist>>

\* save_open, with the loop moving on before anything is written
save_open_deferred ==
    /\ pc = "save"
    /\ state' = idx
    /\ idx' = idx + 1
    /\ Going("loop")
    /\ UNCHANGED <<df, file, config, rows, review_col, start, end, text, hist>>

\* save_state, first half: open(STATE_FILE, "w") truncates the file
save_open ==
    /\ pc = "save"
    /\ state' = idx
    /\ file' = Corrupt
    /\ Going("dump")
    /\ UNCHANGED <<df, config, rows, review_col, start, end, idx, text, hist>>

\* save_state, second half: json.dump and close; then the loop moves on
save_dump ==
    /\ pc = "dump"
    /\ file' = Json(state)
    /\ fileAtRow' = Json(state)
    /\ idx' = idx + 1
    /\ Going("loop")
    /\ UNCHANGED <<df, config, state, rows, review_col, start, end, text, published,
                   calls, visited, runCalls, slept, fileAtStart, failed, unsaved, prev, faults,
                   overrides, crashes, skipped>>

(* --------------------------- posting driver --------------------------- *)

\* start_of, resuming at the last processed row instead of the one after it
start_of_repeats(last_index, force) ==
    IF force > 0 \/ last_index < 0 THEN 0 ELSE last_index

\* start_of, resuming one row too far
start_of_skips(last_index, force) == IF force > 0 THEN 0 ELSE last_index + 2

\* start_of, taking the override branch whatever the setting
start_of_from_zero(last_index, force) == 0

\* start_of, without the override branch
start_of_ignores_force(last_index, force) == last_index + 1

\* main, lines 115-121: where the loop starts
start_of(last_index, force) == IF force > 0 THEN 0 ELSE last_index + 1

\* nothing_new, letting start = rowCount through
nothing_new_strict(from, n, force) == from > n /\ force = 0

\* main, line 123: nothing to post
nothing_new(from, n, force) == from >= n /\ force = 0

\* end_of, going to the end of the sheet whatever the override
end_of_ignores_force(force, n) == n

\* main, line 132: where the loop stops
end_of(force, n) == IF force = 0 THEN n ELSE Min(force, n)

\* fetch, without the return of lines 100-102 on a sheet with no rows
fetch_ignores_empty ==
    /\ pc = "fetch"
    /\ LET s0 == start_of(state, FORCE_POST_FIRST_N)
       IN  IF nothing_new(s0, Len(df.rows), FORCE_POST_FIRST_N)
           THEN Finish("nonew")
           ELSE /\ rows' = df.rows
                /\ review_col' = find_review_column(df)
                /\ start' = s0
                /\ Going("login")
                /\ UNCHANGED <<state, end, idx, text>>
    /\ UNCHANGED <<df, file, config, hist>>

\* main, lines 99-125: read the sheet, resolve the column, compute start
fetch ==
    /\ pc = "fetch"
    /\ \/ /\ df.rows = <<>>
          /\ Finish("nodata")
       \/ /\ df.rows # <<>>
          /\ LET s0 == start_of(state, FORCE_POST_FIRST_N)
             IN  IF nothing_new(s0, Len(df.rows), FORCE_POST_FIRST_N)
                 THEN Finish("nonew")
                 ELSE /\ rows' = df.rows
                      /\ review_col' = find_review_column(df)
                      /\ start' = s0
                      /\ Going("login")
                      /\ UNCHANGED <<state, end, idx, text>>
    /\ UNCHANGED <<df, file, config, hist>>

\* main, lines 127-132: client.login returns; the loop bounds are set
login ==
    /\ pc = "login"
    /\ posted' = 0
    /\ end' = end_of(FORCE_POST_FIRST_N, Len(rows))
    /\ idx' = start
    /\ Going("loop")
    /\ UNCHANGED <<df, file, RESET_STATE, FORCE_POST_FIRST_N, state, rows, review_col,
                   start, text, hist>>

\* login_fails, with the cursor written on the way out
login_fails_saves ==
    /\ pc = "login"
    /\ faults < MaxFaults
    /\ faults' = faults + 1
    /\ file' = Json(state)
    /\ Finish("loginfail")
    /\ UNCHANGED <<df, config, published, calls, visited, runCalls, slept,
                   fileAtStart, fileAtRow, failed, unsaved, prev, overrides, crashes, skipped>>

\* client.login raises
login_fails ==
    /\ pc = "login"
    /\ faults < MaxFaults
    /\ faults' = faults + 1
    /\ Finish("loginfail")
    /\ UNCHANGED <<df, file, config, published, calls, visited, runCalls, slept,
                   fileAtStart, fileAtRow, failed, unsaved, prev, overrides, crashes, skipped>>

\* loop, without the test of line 135: every formatted row goes to send_post
loop_posts_empty ==
    /\ pc = "loop"
    /\ \/ /\ idx < end
          /\ text' = format_post(rows[idx + 1], review_col)
          /\ visited' = Append(visited, idx)
          /\ Going("send")
          /\ UNCHANGED <<state, rows, review_col, start, end, idx, skipped>>
       \/ /\ idx >= end
          /\ Finish("done")
          /\ UNCHANGED <<visited, skipped>>
    /\ UNCHANGED <<df, file, config, published, calls, runCalls, slept, fileAtStart,
                   fileAtRow, failed, unsaved, prev, faults, overrides, crashes>>

\* main, lines 133-135 and 145: the next position of range(start, end) is formatted
loop ==
    /\ pc = "loop"
    /\ \/ /\ idx < end
          /\ text' = format_post(rows[idx + 1], review_col)
          /\ visited' = Append(visited, idx)
          /\ IF strip(text') # <<>>
             THEN Going("send") /\ UNCHANGED skipped
             ELSE Going("save") /\ skipped' = skipped \cup {idx}
          /\ UNCHANGED <<state, rows, review_col, start, end, idx>>
       \/ /\ idx >= end
          /\ Finish("done")
          /\ UNCHANGED <<visited, skipped>>
    /\ UNCHANGED <<df, file, config, published, calls, runCalls, slept, fileAtStart,
                   fileAtRow, failed, unsaved, prev, faults, overrides, crashes>>

\* send_post, with the cursor written as soon as the post is out
send_post_saves_at_once ==
    /\ pc = "send"
    /\ published' = [published EXCEPT ![idx] = @ + 1]
    /\ calls' = [calls EXCEPT ![idx] = @ + 1]
    /\ runCalls' = runCalls + 1
    /\ posted' = posted + 1
    /\ file' = Json(idx)
    /\ Going("sleep")
    /\ UNCHANGED <<df, RESET_STATE, FORCE_POST_FIRST_N, locals, visited, slept,
                   fileAtStart, fileAtRow, failed, unsaved, prev, faults, overrides,
                   crashes, skipped>>

\* main, lines 136-138: client.send_post returns
send_post ==
    /\ pc = "send"
    /\ published' = [published EXCEPT ![idx] = @ + 1]
    /\ calls' = [calls EXCEPT ![idx] = @ + 1]
    /\ runCalls' = runCalls + 1
    /\ posted' = posted + 1
    /\ Going("sleep")
    /\ UNCHANGED <<df, file, RESET_STATE, FORCE_POST_FIRST_N, locals, visited, slept,
                   fileAtStart, fileAtRow, failed, unsaved, prev, faults, overrides,
                   crashes, skipped>>

\* send_post_fails, with the exception caught and the loop going on
send_post_fails_swallowed ==
    /\ pc = "send"
    /\ faults < MaxFaults
    /\ faults' = faults + 1
    /\ calls' = [calls EXCEPT ![idx] = @ + 1]
    /\ runCalls' = runCalls + 1
    /\ failed' = idx
    /\ Going("save")
    /\ UNCHANGED <<df, file, config, locals, published, visited, slept, fileAtStart,
                   fileAtRow, unsaved, prev, overrides, crashes, skipped>>

\* client.send_post raises: nothing catches it, the process ends
send_post_fails ==
    /\ pc = "send"
    /\ faults < MaxFaults
    /\ faults' = faults + 1
    /\ calls' = [calls EXCEPT ![idx] = @ + 1]
    /\ runCalls' = runCalls + 1
    /\ failed' = idx
    /\ Finish("sendfail")
    /\ UNCHANGED <<df, file, config, published, visited, slept, fileAtStart, fileAtRow,
                   unsaved, prev, overrides, crashes, skipped>>

\* main, line 139: time.sleep(2)
sleep ==
    /\ pc = "sleep"
    /\ slept' = slept + 1
    /\ Going("save")
    /\ UNCHANGED <<df, file, config, locals, published, calls, visited, runCalls,
                   fileAtStart, fileAtRow, failed, unsaved, prev, faults, overrides,
                   crashes, skipped>>

(* ---------------------- sheets of other shapes ------------------------ *)

\* headers a survey sheet may carry: two that match a needle once normalised,
\* one that misses every needle by a word boundary, one that matches none
H_What ==
    <<" ","W","h","a","t"," ","d","i","d"," ","E","T","H","O","S"," ",
      " ","d","o"," ","w","e","l","l","?">>
H_Feedback ==
    <<"F","e","e","d","b","a","c","k",":"," ","E","t","h","o","s"," ",
      "d","i","d"," ","w","e","l","l">>
H_Wellness ==
    <<"W","h","a","t"," ","E","t","h","o","s"," ","w","e","l","l","n",
      "e","s","s">>
H_Notes == <<"N","o","t","e","s">>

HeaderPool == {MESSAGE_COL, NAME_COL, H_What, H_Feedback, H_Wellness, H_Notes}

\* the header rows tried: up to MaxCols distinct headers, in any order
HeaderRows ==
    {h \in UNION {[1 .. k -> HeaderPool] : k \in 1 .. MaxCols} :
        \A i, j \in DOMAIN h : h[i] = h[j] => i = j}

M_ok == <<"o","k">>

\* a sheet tried for the column resolver: two rows under a header row, every
\* cell empty (fillna) or not
IsResolverSheet(d) ==
    \E h \in HeaderRows :
        \E r1 \in [Range(h) -> {<<>>, M_Great}], r2 \in [Range(h) -> {<<>>, M_ok}] :
            d = [columns |-> h, rows |-> <<r1, r2>>]

DigitSeq == <<"0","1","2","3","4","5","6","7","8","9">>

\* a text of n characters, no two neighbours alike
LongText(n) == [i \in 1 .. n |-> DigitSeq[(i % 10) + 1]]

\* the messages tried for the formatter: none, blank, padded with whitespace,
\* and long ones around the cut
MessagePool ==
    {<<>>, <<" ">>, <<" ">> \o M_Great \o <<"\n">>}
    \cup {LongText(n) : n \in MaxPostLen - MaxTail .. MaxPostLen + MaxTail}

\* a sheet tried for the formatter: one row under the default headers
IsFormatterSheet(d) ==
    \E ts \in {<<>>, <<" ">>, <<" ">> \o T_2024},
       name \in {<<>>, <<" ", " ">>, N_Alex \o <<" ">>},
       msg \in MessagePool :
        d = [columns |-> Columns, rows |-> <<MkRow(ts, name, msg)>>]

(* --------------------------- specifications --------------------------- *)

Main ==
    \/ load_state \/ fetch \/ login \/ loop \/ send_post \/ sleep
    \/ save_open \/ save_dump

Next ==
    \/ AddRow \/ StartRun \/ Main
    \/ login_fails \/ send_post_fails \/ Crash

Spec == Init /\ [][Next]_vars

\* the process is started with neither override set
StartPlainRun ==
    /\ StartRun
    /\ ~RESET_STATE'
    /\ FORCE_POST_FIRST_N' = 0

NextLive ==
    \/ AddRow \/ StartPlainRun \/ Main
    \/ login_fails \/ send_post_fails \/ Crash

\* runs without override, re-invoked for ever; a started process takes its next
\* step unless it is killed; login and send_post do not fail for ever
SpecLive ==
    /\ Init /\ [][NextLive]_vars
    /\ WF_vars(StartPlainRun)
    /\ WF_vars(Main)
    /\ SF_vars(login)
    /\ SF_vars(send_post)

\* the sheet is of any of the shapes above when the first run starts
InitSheets ==
    /\ IsResolverSheet(df) \/ IsFormatterSheet(df)
    /\ Fresh

NextSheets ==
    \/ StartPlainRun \/ load_state \/ fetch \/ login \/ loop

\* one run on a sheet of any shape, followed up to the formatting of its
\* first row
SpecSheets == InitSheets /\ [][NextSheets]_vars

(* --------------------------- vocabulary ------------------------------- *)

\* the run in progress (or the last one) has neither override set
Plain == ~RESET_STATE /\ FORCE_POST_FIRST_N = 0

\* some crash fell inside a loop body, not between two
crashedMidRow == "row" \in crashes

\* row position i exists and its formatted text is not empty
NonEmpty(i) ==
    /\ i < Len(df.rows)
    /\ strip(format_post(df.rows[i + 1], find_review_column(df))) # <<>>

\* row position i has been fully handled: published if it has text, skipped if not
Handled(i) ==
    /\ i < Len(df.rows)
    /\ IF NonEmpty(i) THEN published[i] >= 1 ELSE i \in skipped

(* ------------------------------ claims -------------------------------- *)

\* C1 as stated: over runs with no override and crashes only between rows, no
\* row position is passed to send_post more than once.
C1_PassedAtMostOnce ==
    (overrides = 0 /\ ~crashedMidRow) => \A i \in RowIdx : calls[i] <= 1

\* C1, amended: over runs with no override and crashes only between rows, no row
\* position is published (send_post returning) more than once, and a run calls
\* send_post only for positions above the cursor it found persisted.
C1_PublishedAtMostOnce ==
    (overrides = 0 /\ ~crashedMidRow) =>
        /\ \A i \in RowIdx : published[i] <= 1
        /\ pc = "send" => idx > Cursor(fileAtStart)

\* a run was killed between row 0 and row 1, and the next run, started on the
\* same sheet, is about to publish row 1 with row 0 published once
C1_Witness ==
    /\ overrides = 0 /\ crashes = {"between"} /\ faults = 1
    /\ prev.ended = "aborted" /\ ~added
    /\ pc = "send" /\ idx = 1 /\ start = 1
    /\ published[0] = 1 /\ published[1] = 0

\* C2: whenever the file holds last_index = c, every row position up to c exists
\* and has been fully handled (published if it has text, skipped if not).
C2_CursorCoversHandledRows ==
    file.kind = "json" => \A i \in 0 .. file.last_index : Handled(i)

\* a run was killed inside the body of row 1 after row 0 was persisted
C2_Witness ==
    /\ pc = "idle" /\ outcome = "crash" /\ crashedMidRow /\ overrides = 0
    /\ file = Json(0) /\ Len(df.rows) = 2

\* a run ended inside save_state: the file is left truncated, and every later
\* run without reset fails in load_state
Stuck == pc = "idle" /\ file = Corrupt

\* C3 as stated: with re-invocation for ever, every row with text is eventually
\* published, and no row is published more than once.
C3_EventuallyExactlyOnce ==
    \A i \in RowIdx :
        /\ [](NonEmpty(i) => <>(published[i] >= 1))
        /\ [](published[i] <= 1)

\* C3, amended: with re-invocation for ever, every row with text is eventually
\* published at least once, unless a crash inside save_state leaves the file
\* truncated; and no row is published more than once as long as no crash falls
\* inside a loop body.
C3_EventuallyPublished ==
    \A i \in RowIdx :
        /\ [](NonEmpty(i) => <>(published[i] >= 1 \/ Stuck))
        /\ [](~crashedMidRow => published[i] <= 1)

\* send_post raised for row 0 in the run before; this run has published it and
\* returned, both rows published once
C3_Witness ==
    /\ prev.failed = 0 /\ outcome = "done"
    /\ Len(df.rows) = 2 /\ calls[0] = 2
    /\ published[0] = 1 /\ published[1] = 1

\* the places of a run at which start, end and idx are set
InLoop == {"loop", "send", "sleep", "save", "dump"}

\* C4 as stated: a run that follows another run with the same (default)
\* configuration, no row added in between, never calls send_post.
C4_SecondRunNeverPosts ==
    (pc # "idle" /\ prev.ended # "never" /\ prev.plain /\ Plain /\ ~added) =>
        (runCalls = 0 /\ pc # "send")

\* C4, amended: with neither override set, a run that follows a run that
\* returned, no row added in between, never calls send_post.
C4_Idempotent ==
    (pc # "idle" /\ prev.ended = "returned" /\ prev.plain /\ Plain /\ ~added) =>
        (runCalls = 0 /\ pc # "send")

\* the second run of two, after the first published both rows, has loaded the
\* cursor and is about to find nothing new
C4_Witness ==
    /\ pc = "fetch" /\ prev.ended = "returned" /\ prev.plain /\ Plain /\ ~added
    /\ Len(df.rows) = 2 /\ state = 1
    /\ published[0] = 1 /\ published[1] = 1

\* C5 as stated: after any run the persisted last_index is not below the value
\* it had before the run.
C5_MonotonicAnyRun ==
    (pc = "idle" /\ file # Corrupt) => Cursor(file) >= Cursor(fileAtStart)

\* C5, amended: during and after a run with neither override set, a persisted
\* last_index is not below the value it had before the run.
C5_MonotonicPlainRun ==
    (Plain /\ file # Corrupt) => Cursor(file) >= Cursor(fileAtStart)

\* a run with no override found last_index = 0 and left last_index = 1
C5_Witness ==
    /\ pc = "idle" /\ Plain /\ outcome = "done"
    /\ fileAtStart = Json(0) /\ file = Json(1)

\* C6: the persisted last_index never exceeds rowCount - 1.
C6_CursorBelowRowCount ==
    file.kind = "json" => file.last_index <= Len(df.rows) - 1

\* a force-post run with N above the row count returned with the cursor on the
\* last row
C6_Witness ==
    /\ pc = "idle" /\ outcome = "done" /\ ~added
    /\ FORCE_POST_FIRST_N > Len(df.rows)
    /\ file = Json(Len(df.rows) - 1)

\* what C7 says of the run send_post failed in: the run ends there, row i
\* being the last one visited, and the file is as it was before row i, which
\* it does not cover
C7_Failing(covered) ==
    (pc = "idle" /\ outcome = "sendfail" /\ covered) =>
        /\ file = fileAtRow
        /\ Cursor(file) < failed
        /\ visited # <<>> /\ visited[Len(visited)] = failed

\* what C7 says of the run after it, when that run has no override: it starts
\* at row i, calls send_post for it first, and does not return for want of rows
C7_Retry(covered) ==
    (prev.failed >= 0 /\ covered /\ Plain) =>
        /\ pc \in InLoop => start = prev.failed
        /\ (pc = "send" /\ runCalls = 0) => idx = prev.failed
        /\ pc = "idle" => outcome \notin {"nonew", "nodata"}

\* C7 as stated: when send_post fails for row i the run aborts at once, the
\* persisted cursor stays at the value saved before row i, and the next normal
\* run attempts row i again.
C7_AnyRun ==
    C7_Failing(TRUE) /\ C7_Retry(TRUE)

\* C7, amended: the same, for a failure in a run with neither override set.
C7_PlainRun ==
    C7_Failing(Plain) /\ C7_Retry(prev.plain)

\* send_post raised for row 1 in a run with no override, and the next such run
\* is about to call send_post for row 1 as its first call
C7_Witness ==
    /\ prev.failed = 1 /\ prev.plain /\ Plain
    /\ pc = "send" /\ idx = 1 /\ runCalls = 0 /\ start = 1

\* C8 as stated: a run that login failed in made no send_post call, visited no
\* row, and left the file as it was when the run started.
C8_LoginFailureLeavesFile ==
    (pc = "idle" /\ outcome = "loginfail") =>
        (runCalls = 0 /\ visited = <<>> /\ file = fileAtStart)

\* C8, amended: a run that login failed in made no send_post call, visited no
\* row, and left the file as it was when the run started, unless RESET_STATE
\* was set: then load_state had already deleted the file.
C8_LoginFailureLeavesFileUnlessReset ==
    (pc = "idle" /\ outcome = "loginfail") =>
        /\ runCalls = 0 /\ visited = <<>>
        /\ file = fileAtStart \/ (RESET_STATE /\ file = Absent)

\* login failed in a run with no override that had found last_index = 0
C8_Witness ==
    /\ pc = "idle" /\ outcome = "loginfail" /\ ~RESET_STATE
    /\ fileAtStart = Json(0) /\ file = Json(0)

\* the positions 0 .. n-1 in ascending order
Upto(n) == [k \in 1 .. n |-> k - 1]

\* C9: a run with FORCE_POST_FIRST_N = N > 0 that meets no failure visits
\* exactly the positions 0 .. min(N, rowCount) - 1, in ascending order; a run
\* under way has visited a prefix of them.
C9_ForcePostVisitsPrefix ==
    FORCE_POST_FIRST_N > 0 =>
        /\ (pc = "idle" /\ outcome \in {"done", "nodata", "nonew"} /\ ~added) =>
              visited = Upto(Min(FORCE_POST_FIRST_N, Len(df.rows)))
        /\ pc # "idle" =>
              /\ Len(visited) <= Min(FORCE_POST_FIRST_N, Len(df.rows))
              /\ visited = Upto(Len(visited))

\* a force-post run with N = 1 found last_index = 1, visited row 0 alone and
\* called send_post for it a second time
C9_Witness ==
    /\ pc = "idle" /\ outcome = "done" /\ ~added
    /\ FORCE_POST_FIRST_N = 1 /\ ~RESET_STATE
    /\ fileAtStart = Json(1) /\ visited = <<0>> /\ calls[0] = 2

\* what C10 says of a run with RESET_STATE set, once load_state has returned
C10_Body(left) ==
    RESET_STATE =>
        /\ pc \in {"fetch", "login"} => (state = -1 /\ file \in left)
        /\ pc \in InLoop \cup {"login"} => start = 0
        /\ (pc \in InLoop /\ FORCE_POST_FIRST_N = 0) => end = Len(df.rows)

\* C10 as stated: with the reset flag set, load_state returns last_index = -1
\* and the file is gone; the run starts at position 0 and, without force-post
\* override, goes over every row.
C10_ResetDiscards ==
    C10_Body({Absent})

\* C10, amended: the same, except that the file is gone only if os.remove did
\* not raise; if it raised, the file is left as it was.
C10_ResetDiscardsIfRemoved ==
    C10_Body({Absent, fileAtStart})

\* a run with the reset flag found last_index = 1, deleted the file, and is
\* about to log in with start = 0
C10_Witness ==
    /\ RESET_STATE /\ FORCE_POST_FIRST_N = 0 /\ pc = "login"
    /\ fileAtStart = Json(1) /\ file = Absent /\ state = -1 /\ start = 0

\* C11: while the sheet has no rows, a run never gets past the loading of the
\* sheet: it is never at the column resolver's result, at login, in the loop or
\* in save_state; it visits no row, calls send_post and sleep never, leaves the
\* file as load_state left it, and ends reporting that there is nothing to do.
C11_EmptySheetStopsAfterLoad ==
    df.rows = <<>> =>
        /\ pc \in {"idle", "load", "fetch"}
        /\ outcome \in {"none", "running", "nodata", "crash"}
        /\ review_col = <<>> /\ text = <<>>
        /\ runCalls = 0 /\ slept = 0 /\ visited = <<>>
        /\ file = fileAtStart \/ (RESET_STATE /\ file = Absent)

\* a run with force-post override on a sheet with no rows has returned
C11_Witness ==
    /\ df.rows = <<>> /\ pc = "idle" /\ outcome = "nodata"
    /\ FORCE_POST_FIRST_N > 0

\* the override column is among the headers of the sheet
HasOverride == MESSAGE_COL \in Range(df.columns)

\* the positions of the headers that match a needle once normalised
Matching ==
    {i \in DOMAIN df.columns :
        \E n \in DOMAIN needles : re_search(needles[n], _norm(df.columns[i]))}

\* the places of a run at which the review column has been resolved
Resolved == InLoop \cup {"login"}

\* C12: the override column is returned whenever it is among the headers; if
\* it is not, the first header in column order that matches a needle is
\* returned whenever there is one; only when there is neither is a column of
\* greatest mean length returned.
C12_Precedence ==
    pc \in Resolved =>
        /\ HasOverride => review_col = MESSAGE_COL
        /\ (~HasOverride /\ Matching # {}) =>
              \E i \in Matching :
                  /\ review_col = df.columns[i]
                  /\ \A j \in Matching : i <= j
        /\ (~HasOverride /\ Matching = {}) =>
              /\ review_col \in Range(df.columns)
              /\ \A c \in Range(df.columns) : avg_len(df, c) <= avg_len(df, review_col)

\* no override column; the first header matches no needle and has the
\* longer cells, the second matches one: the second is returned
C12_Witness ==
    /\ pc = "login"
    /\ df.columns = <<H_Notes, H_Feedback>>
    /\ avg_len(df, H_Notes) > avg_len(df, H_Feedback)
    /\ review_col = H_Feedback

\* the places of a run at which text holds the formatted row at position idx
Formatted == {"send", "sleep", "save", "dump"}

\* what C13 says format_post returns for a row, its message being the cell
\* under the resolved column
C13_Composed(row, col) ==
    LET message == strip(Get(row, col, <<>>))
        name    == strip(Get(row, NAME_COL, <<>>))
        ts      == strip(Get(row, TIMESTAMP_COL, <<>>))
        signed  == message \o <<"\n", "EMDASH", " ">>
                           \o (IF name = <<>> THEN Anonymous ELSE name)
        stamped == IF ts = <<>> THEN signed ELSE signed \o <<" ", "BULLET", " ">> \o ts
    IN  IF message = <<>> THEN <<>> ELSE SubSeq(stamped, 1, Min(Len(stamped), 290))

\* C13: the text format_post returns for a row is empty when the trimmed
\* message is empty, whatever the name and the timestamp; otherwise it is the
\* first 290 characters of message, newline, em-dash, space, name (Anonymous
\* for a name empty after trimming) and, for a timestamp not empty after
\* trimming, space, bullet, space, timestamp; it is never longer than 290.
C13_FormatPost ==
    pc \in Formatted =>
        /\ text = C13_Composed(rows[idx + 1], review_col)
        /\ Len(text) <= 290

\* a message five characters short of the cut, with a name and a timestamp:
\* the text is cut inside the name
C13_Witness ==
    /\ pc = "send"
    /\ review_col = MESSAGE_COL
    /\ Len(strip(Get(rows[idx + 1], MESSAGE_COL, <<>>))) = 285
    /\ strip(Get(rows[idx + 1], TIMESTAMP_COL, <<>>)) # <<>>
    /\ Len(text) = 290
    /\ SubSeq(text, 286, 290) = <<"\n", "EMDASH", " ", "A", "l">>

\* C14: a run started without reset on a cursor file that does not parse ends
\* in load_state: it never gets to read the sheet (so it does not start from
\* -1), calls send_post for no row, and leaves the file as it found it.
C14_CorruptFileIsFatal ==
    (~RESET_STATE /\ fileAtStart = Corrupt) =>
        /\ pc \in {"idle", "load"}
        /\ pc = "idle" => outcome \in {"loaderr", "crash"}
        /\ runCalls = 0 /\ visited = <<>>
        /\ file = Corrupt

\* a run killed inside save_state left the file truncated after row 0 was
\* published; the next run, without reset, has failed in load_state
C14_Witness ==
    /\ ~RESET_STATE /\ fileAtStart = Corrupt
    /\ pc = "idle" /\ outcome = "loaderr"
    /\ published[0] = 1 /\ Len(df.rows) = 2

\* the last position the loop body was entered with in this run
LastVisited == visited[Len(visited)]

\* how many of the positions visited in this run have a text
TextCount == Cardinality({k \in DOMAIN visited : NonEmpty(visited[k])})

\* C15: when the loop visits a row position whose formatted text is empty, it
\* goes to neither send_post nor sleep: the position has never been passed to
\* send_post, and the calls, the delays and the published count of the run
\* stay at the number of visited rows with a text; and before the loop looks
\* at the next position the cursor is set to it and the file holds it.
C15_SkipAdvancesCursor ==
    /\ pc \in {"send", "sleep"} => strip(text) # <<>>
    /\ (pc \in {"save", "dump"} /\ strip(text) = <<>>) => calls[idx] = 0
    /\ pc \in {"loop", "save", "dump"} =>
          (posted = TextCount /\ runCalls = posted /\ slept = posted)
    /\ (pc = "loop" /\ visited # <<>> /\ ~NonEmpty(LastVisited)) =>
          (state = LastVisited /\ file = Json(LastVisited) /\ idx = LastVisited + 1)

\* row 0 has a text and row 1 has none: the run has published row 0, skipped
\* row 1 with no call and no delay, and persisted last_index = 1
C15_Witness ==
    /\ pc = "loop" /\ visited = <<0, 1>>
    /\ NonEmpty(0) /\ ~NonEmpty(1)
    /\ posted = 1 /\ slept = 1 /\ runCalls = 1 /\ calls[1] = 0
    /\ file = Json(1)

\* the positions from, from + 1, ..., from + n - 1 in ascending order
From(from, n) == [k \in 1 .. n |-> from + k - 1]

\* C16: within a run the loop visits start, start + 1, ... in ascending order
\* with no gap, up to end - 1 when the run returns; between two rows the file
\* holds the position just handled, so that while position i + 1 is formatted
\* and published the file holds i, and each value save_state writes is the
\* one it wrote before in this run plus 1.
C16_AscendingAndPersisted ==
    /\ pc \in InLoop =>
          /\ visited = From(start, Len(visited))
          /\ start + Len(visited) <= end
          /\ pc = "loop" =>
                /\ idx = start + Len(visited)
                /\ visited # <<>> => (state = idx - 1 /\ file = Json(idx - 1))
          /\ pc \in MidRow => (visited # <<>> /\ idx = LastVisited)
          /\ (pc \in {"send", "sleep", "save"} /\ Len(visited) >= 2) =>
                file = Json(idx - 1)
          /\ pc = "dump" =>
                /\ state = idx
                /\ Len(visited) >= 2 => fileAtRow = Json(idx - 1)
    /\ (pc = "idle" /\ outcome = "done" /\ ~added) =>
          /\ visited # <<>>
          /\ visited = From(visited[1], Len(visited))
          /\ visited[1] = start_of(IF RESET_STATE THEN -1 ELSE Cursor(fileAtStart),
                                   FORCE_POST_FIRST_N)
          /\ LastVisited = end_of(FORCE_POST_FIRST_N, Len(df.rows)) - 1
          /\ file = Json(LastVisited)

\* a run that started at position 0 is about to publish position 1, with
\* last_index = 0 in the file
C16_Witness ==
    /\ pc = "send" /\ start = 0 /\ idx = 1 /\ visited = <<0, 1>>
    /\ file = Json(0) /\ published[0] = 1

\* C17: with no force-post override, a run whose start = last_index + 1 is
\* not below the row count never gets to login: login is reached only with
\* start below the row count, and the run that returns for want of new rows
\* has called neither login nor send_post, has visited no row, and leaves
\* the file as it was when the run started.
C17_NothingNewStopsBeforeLogin ==
    /\ (pc = "login" /\ FORCE_POST_FIRST_N = 0) =>
          (start = state + 1 /\ start < Len(df.rows))
    /\ (pc \in InLoop /\ FORCE_POST_FIRST_N = 0) => start < Len(df.rows)
    /\ (pc = "idle" /\ outcome = "nonew") =>
          /\ FORCE_POST_FIRST_N = 0
          /\ ~added => Cursor(fileAtStart) + 1 >= Len(df.rows)
          /\ runCalls = 0 /\ slept = 0 /\ visited = <<>>
          /\ file = fileAtStart

\* both rows were published by an earlier run; this run found last_index = 1
\* and two rows, and returned with the file as it was
C17_Witness ==
    /\ pc = "idle" /\ outcome = "nonew" /\ ~added
    /\ Len(df.rows) = 2 /\ fileAtStart = Json(1) /\ file = Json(1)
    /\ runCalls = 0

\* the mean cell length of the column at position i is below that of the
\* column at position j (both are sums over the same number of rows)
MeanBelow(i, j) == avg_len(df, df.columns[i]) < avg_len(df, df.columns[j])

\* C18: when the override column is not among the headers and no header
\* matches a needle, the column returned has a mean cell length that no column
\* exceeds, and every column before it in column order has a smaller one.
C18_FallbackFirstLongest ==
    (pc \in Resolved /\ ~HasOverride /\ Matching = {}) =>
        \E i \in DOMAIN df.columns :
            /\ review_col = df.columns[i]
            /\ \A j \in DOMAIN df.columns : ~MeanBelow(i, j)
            /\ \A j \in 1 .. i - 1 : MeanBelow(j, i)

\* two headers, neither the override, neither matching a needle (one misses
\* by a word boundary): their cells tie, and the first is returned
C18_Witness ==
    /\ pc = "login"
    /\ df.columns = <<H_Wellness, H_Notes>>
    /\ ~MeanBelow(1, 2) /\ ~MeanBelow(2, 1)
    /\ avg_len(df, H_Notes) > 0
    /\ review_col = H_Wellness

\* C19: after a run with FORCE_POST_FIRST_N = N > 0 on a sheet with rows has
\* returned, the file holds last_index = min(N, rowCount) - 1, whatever it
\* held before the run; and a run with neither override set starts at the
\* last_index it finds in the file plus 1, hence at min(N, rowCount) when it
\* follows that run.
C19_ForcePostResetsCursor ==
    /\ (pc = "idle" /\ outcome = "done" /\ FORCE_POST_FIRST_N > 0 /\ ~added) =>
          /\ file = Json(Min(FORCE_POST_FIRST_N, Len(df.rows)) - 1)
          /\ start_of(Cursor(file), 0) = Min(FORCE_POST_FIRST_N, Len(df.rows))
    /\ (Plain /\ pc \in InLoop \cup {"login"}) => start = Cursor(fileAtStart) + 1

\* a run with N = 1 found last_index = 1 on a sheet of two rows and has
\* returned, leaving last_index = 0
C19_Witness ==
    /\ pc = "idle" /\ outcome = "done" /\ ~added
    /\ FORCE_POST_FIRST_N = 1 /\ Len(df.rows) = 2
    /\ fileAtStart = Json(1) /\ file = Json(0)

\* what C20 says of the order of the steps for a row with a text: send_post
\* has returned before the delay starts, the delay is over before save_state
\* starts, and save_state writes the position of that row
C20_Order ==
    /\ pc = "send" => (posted = TextCount - 1 /\ slept = posted)
    /\ pc = "sleep" =>
          (published[idx] >= 1 /\ posted = TextCount /\ slept = posted - 1)
    /\ (pc \in {"save", "dump"} /\ strip(text) # <<>>) =>
          (published[idx] >= 1 /\ posted = TextCount /\ slept = posted)
    /\ pc = "dump" => state = idx

\* what C20 says of the file a run leaves when it is killed after send_post
\* returned for row i and before save_state completed: it holds what it held
\* before row i, the value saved for the row before or the one the run found
C20_Left(covered) ==
    (pc = "idle" /\ outcome = "crash" /\ unsaved >= 0 /\ covered) =>
        /\ file = fileAtRow \/ (RESET_STATE /\ file = Absent)
        /\ Cursor(file) < unsaved

\* what C20 says of the run after it, when that run has no override: it starts
\* at row i, calls send_post for it first, and does not end without the call
C20_Retry(covered) ==
    (prev.unsaved >= 0 /\ covered /\ Plain) =>
        /\ pc \in InLoop => start = prev.unsaved
        /\ (pc = "send" /\ runCalls = 0) => idx = prev.unsaved
        /\ pc = "idle" => outcome \notin {"nonew", "nodata", "loaderr"}
        /\ (pc = "idle" /\ outcome = "done") => calls[prev.unsaved] >= 2

\* C20 as stated: for a row i with a text the steps are send_post(i), the
\* delay, save_state with last_index = i; a run killed after send_post(i)
\* returned and before save_state completed leaves the file with the value it
\* held before row i, and the next run with no override starts at row i and
\* calls send_post for it again.
C20_AnyInterruption ==
    C20_Order /\ C20_Left(TRUE) /\ C20_Retry(TRUE)

\* C20, amended: the same, for a run with neither override set that is killed
\* before save_state has opened the file; a run killed inside save_state
\* leaves the file truncated, and the next run with no reset fails in
\* load_state without a send_post call.
C20_InterruptionBeforeOpen ==
    /\ C20_Order
    /\ C20_Left(Plain /\ file # Corrupt)
    /\ C20_Retry(prev.plain /\ fileAtStart # Corrupt)
    /\ (prev.unsaved >= 0 /\ fileAtStart = Corrupt /\ ~RESET_STATE) =>
          (pc \in {"load", "idle"} /\ runCalls = 0)

\* a run with no override was killed during the delay after publishing row 1;
\* the next such run found last_index = 0 and is about to call send_post for
\* row 1 a second time
C20_Witness ==
    /\ prev.unsaved = 1 /\ prev.plain /\ Plain
    /\ fileAtStart = Json(0)
    /\ pc = "send" /\ idx = 1 /\ runCalls = 0 /\ start = 1
    /\ published[1] = 1

====
